---- MODULE Spec2Model ----
(***************************************************************************)
(* Delta-sync and indexing pipeline of the commit-delta indexers.          *)
(*                                                                         *)
(* Two script variants are modelled side by side:                          *)
(*   "azure"  : src/Az_CogSrch_Commit_Delta_Indexer.py                     *)
(*              (GitHubCommitDeltaIndexer.process_commits)                 *)
(*   "chroma" : src/GitHub_Commit_Delta_Indexer_with_ChromaDB.py           *)
(*              (sync_with_vector_db / process_changes)                    *)
(*                                                                         *)
(* Strings the code slices, concatenates or writes piecewise (revision     *)
(* ids, file names, the pointer file's content) are sequences of           *)
(* one-character strings.  Python's None is the value None below.          *)
(***************************************************************************)
EXTENDS Integers, Sequences, FiniteSets, TLC

\* ---------------------------------------------------------------- bounds
\* Number of commits the remote branch can hold during a run of the model.
MaxCommits == 4
\* Number of distinct files a delta can list.
MaxFiles == 2
\* Number of times the wall clock is seen to advance between cycles.
MaxClock == 1
\* Number of sync cycles started during a run of the model.
MaxCycles == 3
\* Number of failures (failed remote calls, failed writes, kills) injected
\* during a run of the model.
MaxFaults == 1
\* Length of a revision id (40 hex digits at the remote; shortened here,
\* but longer than the 8-character slice the chroma variant takes).
ShaLen == 9

\* ------------------------------------------------------ program constants
\* commit_info['sha'][:8] in process_changes.
PrefixLen == 8

\* ------------------------------------------------------------- processes
\* Invocations of the script that may be alive at the same time.
Procs == {1, 2}

Variants == {"azure", "chroma"}

\* ------------------------------------------------------- values and text
None == <<"None">>
NoFile == <<"NoFile">>

Hex == <<"0", "1", "2", "3", "4", "5", "6", "7",
         "8", "9", "a", "b", "c", "d", "e", "f">>

Whitespace == {" ", "\n", "\t"}

\* The revision id of the k-th commit of the branch.  Commits 2k and 2k+1
\* agree on their first PrefixLen digits and differ in the last one.
Rev(k) ==
    [j \in 1..ShaLen |->
        IF j = PrefixLen THEN Hex[((k \div 2) % 16) + 1]
        ELSE IF j = ShaLen THEN Hex[(k % 2) + 1]
        ELSE "a"]

AllRevs == {Rev(k) : k \in 1..MaxCommits}

\* Index of a revision id in the branch history, 0 when the remote does not
\* know the id.
RevIndex(s) ==
    IF \E k \in 1..MaxCommits : Rev(k) = s
    THEN CHOOSE k \in 1..MaxCommits : Rev(k) = s
    ELSE 0

Letters == <<"x", "y", "z", "w", "v", "u">>

FileName(f) == <<Letters[f], ".", "p", "y">>

\* Files touched by the k-th commit.
ChangedIn(k) ==
    IF k % 3 = 2 THEN 1..MaxFiles
    ELSE IF k % 3 = 0 THEN {1}
    ELSE {}

RECURSIVE SortedSeq(_)
\* The elements of a finite set of integers in increasing order.
SortedSeq(S) ==
    IF S = {} THEN <<>>
    ELSE LET m == CHOOSE x \in S : \A y \in S : x <= y
         IN <<m>> \o SortedSeq(S \ {m})

\* One element of the "files" list of the compare response.
FileEntry(f) ==
    [filename |-> FileName(f),
     status |-> IF f = 1 THEN "modified" ELSE "added",
     additions |-> f + 1,
     deletions |-> f - 1,
     changes |-> 2 * f,
     hasPatch |-> (f % 2 = 1),
     patch |-> IF f % 2 = 1 THEN "@@" ELSE ""]

\* file.get('patch', '') / delta_info.get('patch', '')
GetPatch(file) == IF file.hasPatch THEN file.patch ELSE ""

\* The compare response for base...head when the request succeeds.
CompareFiles(b, h) ==
    LET touched == UNION {ChangedIn(k) : k \in (b + 1)..h}
        order == SortedSeq(touched)
    IN [j \in 1..Len(order) |-> FileEntry(order[j])]

\* The commit response for the k-th commit.
CommitInfo(k) ==
    [ok |-> TRUE, sha |-> Rev(k),
     hasMessage |-> (k % 2 = 0),
     message |-> IF k % 2 = 0 THEN "msg" ELSE "",
     hasAuthor |-> (k % 2 = 0),
     author |-> IF k % 2 = 0 THEN "dev" ELSE ""]

NoInfo == [ok |-> FALSE]

NoDiff == [ok |-> FALSE, hasFiles |-> FALSE, files |-> <<>>]

\* ------------------------------------------------------ revision tracker
RECURSIVE LStrip(_)
LStrip(s) ==
    IF s # <<>> /\ Head(s) \in Whitespace THEN LStrip(Tail(s)) ELSE s

RECURSIVE RStrip(_)
RStrip(s) ==
    IF s # <<>> /\ s[Len(s)] \in Whitespace
    THEN RStrip(SubSeq(s, 1, Len(s) - 1))
    ELSE s

\* str.strip()
Strip(s) == RStrip(LStrip(s))

\* read_previous_hash applied to the content of the pointer file.
ReadPreviousHash(file) ==
    IF file # NoFile THEN Strip(file) ELSE None

\* Python truth value of an Optional[str].
Falsy(s) == s = None \/ s = <<>>

\* ---------------------------------------------------------- transformer
Take(s, n) == SubSeq(s, 1, IF Len(s) < n THEN Len(s) ELSE n)

\* doc_id / delta_id
MakeId(v, sha, filename) ==
    IF v = "azure"
    THEN sha \o <<"_">> \o filename
    ELSE Take(sha, PrefixLen) \o <<"_">> \o filename

\* commit_info.get('commit', {}).get('message', <default>)
GetMessage(v, info) ==
    IF info.hasMessage THEN info.message
    ELSE IF v = "azure" THEN "" ELSE "No message provided"

\* commit_info.get('commit', {}).get('author', {}).get('name', 'Unknown')
GetAuthor(info) ==
    IF info.hasAuthor THEN info.author ELSE "Unknown"

\* delta_description: the interpolated values in the order of the template.
Describe(v, file, info) ==
    <<v, "File", file.filename, "Status", file.status,
      "Changes", file.additions, file.deletions,
      "Patch", GetPatch(file), "Commit Message", GetMessage(v, info)>>

\* The embedding provider, a fixed function of the text.
EmbedOf(text) == <<"vec", text>>

\* The record handed to the vector store.
MakeDocument(v, file, info, vector, stamp) ==
    IF v = "azure"
    THEN [id |-> MakeId(v, info.sha, file.filename),
          filename |-> file.filename,
          content |-> Describe(v, file, info),
          commit_sha |-> info.sha,
          status |-> file.status,
          additions |-> file.additions,
          deletions |-> file.deletions,
          timestamp |-> stamp,
          content_vector |-> vector]
    ELSE [id |-> MakeId(v, info.sha, file.filename),
          document |-> Describe(v, file, info),
          filename |-> file.filename,
          commit_sha |-> info.sha,
          status |-> file.status,
          additions |-> file.additions,
          deletions |-> file.deletions,
          timestamp |-> stamp,
          author |-> GetAuthor(info),
          commit_message |-> GetMessage(v, info),
          embedding |-> vector]

EmptyIndex == << >>

\* upload_documents([document]): insert or replace by key.
Upload(idx, doc) ==
    [x \in (DOMAIN idx) \cup {doc.id} |->
        IF x = doc.id THEN doc ELSE idx[x]]

\* ----------------------------------------------------------------- state
VARIABLES
    variant,     \* which script runs
    hashFile,    \* content of previous_commit_hash.txt, or NoFile
    nCommits,    \* number of commits on the remote branch
    now,         \* wall clock
    index,       \* the vector store: id -> stored record
    pc,          \* position of each invocation
    prev,        \* previous_commit_hash
    latest,      \* latest_commit_hash
    diff,        \* diff
    info,        \* commit_info
    cur,         \* position in the loop over diff["files"]
    vec,         \* embedding of the entry being indexed
    stamp,       \* timestamp taken by process_changes
    branch,      \* "bootstrap" or "delta": which write_previous_hash call
    outcome,     \* how the finished cycle ended
    trace,       \* calls the cycle has made, in order
    startFile,   \* pointer file content when the cycle started
    startIndex,  \* vector store content when the cycle started
    cycles,      \* number of cycles started so far
    faults,      \* number of failures injected so far
    last,        \* the cycle that finished last
    held         \* last complete revision id a cycle found in the file

vars == <<variant, hashFile, nCommits, now, index, pc, prev, latest, diff,
          info, cur, vec, stamp, branch, outcome, trace, startFile,
          startIndex, cycles, faults, last, held>>

locals == <<prev, latest, diff, info, cur, vec, stamp, branch>>

Event(op, ok, f) == [op |-> op, ok |-> ok, f |-> f]

Init ==
    /\ variant \in Variants
    /\ hashFile = NoFile
    /\ nCommits = 0
    /\ now = 0
    /\ index = EmptyIndex
    /\ pc = [p \in Procs |-> "idle"]
    /\ prev = [p \in Procs |-> None]
    /\ latest = [p \in Procs |-> None]
    /\ diff = [p \in Procs |-> NoDiff]
    /\ info = [p \in Procs |-> NoInfo]
    /\ cur = [p \in Procs |-> 0]
    /\ vec = [p \in Procs |-> <<>>]
    /\ stamp = [p \in Procs |-> 0]
    /\ branch = [p \in Procs |-> "none"]
    /\ outcome = [p \in Procs |-> "none"]
    /\ trace = [p \in Procs |-> <<>>]
    /\ startFile = [p \in Procs |-> NoFile]
    /\ startIndex = [p \in Procs |-> EmptyIndex]
    /\ cycles = 0
    /\ faults = 0
    /\ last = [outcome |-> "none", base |-> None, head |-> None]
    /\ held = None

\* ------------------------------------------------------ remote responses
\* GetLatestCommitHash reading the commit list from its old end.
GetLatestCommitHashReversed(n, ok) ==
    IF ok /\ n > 0 THEN Rev(MaxCommits + 1 - n) ELSE None

\* get_latest_commit_hash: data[0]["sha"] if data else None; None on error.
GetLatestCommitHash(n, ok) ==
    IF ok /\ n > 0 THEN Rev(n) ELSE None

\* get_commit_diff: the compare response, None on any error (an id the
\* remote does not know is an HTTP error).
GetCommitDiff(base, head, r) ==
    IF r # "fail" /\ RevIndex(base) > 0 /\ RevIndex(head) > 0
    THEN IF r = "ok"
         THEN [ok |-> TRUE, hasFiles |-> TRUE,
               files |-> CompareFiles(RevIndex(base), RevIndex(head))]
         ELSE [ok |-> TRUE, hasFiles |-> FALSE, files |-> <<>>]
    ELSE NoDiff

\* get_commit_info: the commit response, None on any error.
GetCommitInfo(sha, ok) ==
    IF ok /\ RevIndex(sha) > 0 THEN CommitInfo(RevIndex(sha)) ELSE NoInfo

\* requests.get raises on a network error; only the azure variant wraps the
\* call in try/except.
RemoteOutcomes(v) ==
    IF v = "azure" THEN {"ok", "fail"} ELSE {"ok", "fail", "raise"}

\* ---------------------------------------------------------- orchestrator
\* AfterResolve without the comparison of the two hashes.
AfterResolveNoCompare(prevHash, latestHash) ==
    IF Falsy(latestHash) THEN "nohead"
    ELSE IF Falsy(prevHash) THEN "bootstrap"
    ELSE "delta"

\* AfterResolve without the test of the resolved head.
AfterResolveNoHeadTest(prevHash, latestHash) ==
    IF Falsy(prevHash) THEN "bootstrap"
    ELSE IF prevHash = latestHash THEN "uptodate"
    ELSE "delta"

\* HasFileList taking an empty file list for a missing one.
HasFileListNonEmpty(d) == d.ok /\ d.hasFiles /\ d.files # <<>>

\* HasFileList taking every response for a file list.
HasFileListAlways(d) == TRUE

\* The ifs that follow the two reads at the top of process_commits /
\* sync_with_vector_db.
AfterResolve(prevHash, latestHash) ==
    IF Falsy(latestHash) THEN "nohead"
    ELSE IF Falsy(prevHash) THEN "bootstrap"
    ELSE IF prevHash = latestHash THEN "uptodate"
    ELSE "delta"

\* if diff and "files" in diff
HasFileList(d) == d.ok /\ d.hasFiles

\* LoopDone leaving the loop one entry early.
LoopDoneEarly(k, n) == k >= n

\* for file in diff["files"]: the loop is over once every entry was taken.
LoopDone(k, n) == k > n

\* NextEntry passing over an entry.
NextEntrySkip(k) == k + 2

\* The for statement takes the entries of diff["files"] one after another.
NextEntry(k) == k + 1

\* OnUnitError with a try/except around the loop body in both scripts.
OnUnitErrorSkip(v) == "skip"

\* OnUnitError without the try/except around the loop body.
OnUnitErrorRaise(v) == "raise"

\* What an exception raised while one entry is indexed does to the cycle:
\* index_commit_delta catches it, process_changes lets it propagate.
OnUnitError(v) == IF v = "azure" THEN "skip" ELSE "raise"

\* The environment may make at most MaxFaults calls fail.
Allowed(outcomes) ==
    IF faults < MaxFaults THEN outcomes
    ELSE outcomes \ {"fail", "raise", "nofiles"}

Charge(r) ==
    faults' = IF r \in {"fail", "raise", "nofiles"} THEN faults + 1 ELSE faults

EndCycle(p, how) ==
    /\ pc' = [pc EXCEPT ![p] = "done"]
    /\ outcome' = [outcome EXCEPT ![p] = how]

Log(p, e) == trace' = [trace EXCEPT ![p] = Append(@, e)]

\* Move to entry k of the loop, or past the loop to write_previous_hash.
GoToEntry(p, k, n) ==
    /\ cur' = [cur EXCEPT ![p] = k]
    /\ IF LoopDone(k, n)
       THEN /\ pc' = [pc EXCEPT ![p] = "open"]
            /\ branch' = [branch EXCEPT ![p] = "delta"]
       ELSE /\ pc' = [pc EXCEPT ![p] = "embed"]
            /\ UNCHANGED branch
    /\ UNCHANGED outcome

\* previous_commit_hash = read_previous_hash()
Start(p) ==
    /\ pc[p] = "idle"
    /\ cycles < MaxCycles
    /\ cycles' = cycles + 1
    /\ pc' = [pc EXCEPT ![p] = "resolve"]
    /\ prev' = [prev EXCEPT ![p] = ReadPreviousHash(hashFile)]
    /\ startFile' = [startFile EXCEPT ![p] = hashFile]
    /\ startIndex' = [startIndex EXCEPT ![p] = index]
    /\ held' = IF hashFile \in AllRevs THEN hashFile ELSE held
    /\ UNCHANGED <<variant, hashFile, nCommits, now, index, latest, diff,
                   info, cur, vec, stamp, branch, outcome, trace, faults,
                   last>>

\* latest_commit_hash = get_latest_commit_hash(), and the three early
\* returns.
ResolveHead(p) ==
    /\ pc[p] = "resolve"
    /\ \E r \in Allowed(RemoteOutcomes(variant)) :
        /\ Charge(r)
        /\ IF r = "raise"
           THEN /\ EndCycle(p, "exception")
                /\ Log(p, Event("head", FALSE, 0))
                /\ UNCHANGED <<latest, branch>>
           ELSE LET l == GetLatestCommitHash(nCommits, r = "ok")
                    step == AfterResolve(prev[p], l)
                IN /\ latest' = [latest EXCEPT ![p] = l]
                   /\ Log(p, Event("head", l # None, 0))
                   /\ IF step = "bootstrap"
                      THEN /\ pc' = [pc EXCEPT ![p] = "open"]
                           /\ branch' = [branch EXCEPT ![p] = "bootstrap"]
                           /\ UNCHANGED outcome
                      ELSE IF step = "delta"
                      THEN /\ pc' = [pc EXCEPT ![p] = "diff"]
                           /\ UNCHANGED <<branch, outcome>>
                      ELSE /\ EndCycle(p, step)
                           /\ UNCHANGED branch
    /\ UNCHANGED <<variant, hashFile, nCommits, now, index, prev, diff, info,
                   cur, vec, stamp, startFile, startIndex, cycles, last,
                   held>>

\* diff = get_commit_diff(previous_commit_hash, latest_commit_hash)
FetchDiff(p) ==
    /\ pc[p] = "diff"
    /\ \E r \in Allowed(RemoteOutcomes(variant) \cup {"nofiles"}) :
        /\ Charge(r)
        /\ IF r = "raise"
           THEN /\ EndCycle(p, "exception")
                /\ Log(p, Event("diff", FALSE, 0))
                /\ UNCHANGED diff
           ELSE LET d == GetCommitDiff(prev[p], latest[p], r)
                IN /\ diff' = [diff EXCEPT ![p] = d]
                   /\ Log(p, Event("diff", d.ok, 0))
                   /\ pc' = [pc EXCEPT ![p] = "info"]
                   /\ UNCHANGED outcome
    /\ UNCHANGED <<variant, hashFile, nCommits, now, index, prev, latest,
                   info, cur, vec, stamp, branch, startFile, startIndex,
                   cycles, last, held>>

\* commit_info = get_commit_info(latest_commit_hash), the test of the diff,
\* and the entry into the loop over the files (process_changes takes its
\* timestamp there).
FetchInfo(p) ==
    /\ pc[p] = "info"
    /\ \E r \in Allowed(RemoteOutcomes(variant)) :
        /\ Charge(r)
        /\ IF r = "raise"
           THEN /\ EndCycle(p, "exception")
                /\ Log(p, Event("info", FALSE, 0))
                /\ UNCHANGED <<info, cur, stamp, branch>>
           ELSE LET c == GetCommitInfo(latest[p], r = "ok")
                IN /\ info' = [info EXCEPT ![p] = c]
                   /\ Log(p, Event("info", c.ok, 0))
                   /\ IF HasFileList(diff[p])
                      THEN /\ GoToEntry(p, 1, Len(diff[p].files))
                           /\ stamp' = [stamp EXCEPT ![p] = now]
                      ELSE /\ EndCycle(p, "nochanges")
                           /\ UNCHANGED <<cur, stamp, branch>>
    /\ UNCHANGED <<variant, hashFile, nCommits, now, index, prev, latest,
                   diff, vec, startFile, startIndex, cycles, last, held>>

\* An exception raised while entry cur[p] is being indexed.
UnitFailed(p, e) ==
    /\ Log(p, e)
    /\ IF OnUnitError(variant) = "skip"
       THEN GoToEntry(p, NextEntry(cur[p]), Len(diff[p].files))
       ELSE /\ EndCycle(p, "exception")
            /\ UNCHANGED <<cur, branch>>

\* The first half of the loop body: the id and the description are built
\* from commit_info (a None commit_info raises there), then the text is
\* embedded.
Embed(p) ==
    /\ pc[p] = "embed"
    /\ LET file == diff[p].files[cur[p]]
       IN IF ~info[p].ok
          THEN /\ UnitFailed(p, Event("prepare", FALSE, cur[p]))
               /\ UNCHANGED <<vec, faults>>
          ELSE \E r \in Allowed({"ok", "fail"}) :
                /\ Charge(r)
                /\ IF r = "ok"
                   THEN /\ vec' = [vec EXCEPT ![p] =
                                EmbedOf(Describe(variant, file, info[p]))]
                        /\ Log(p, Event("embed", TRUE, cur[p]))
                        /\ pc' = [pc EXCEPT ![p] = "upsert"]
                        /\ UNCHANGED <<cur, branch, outcome>>
                   ELSE /\ UnitFailed(p, Event("embed", FALSE, cur[p]))
                        /\ UNCHANGED vec
    /\ UNCHANGED <<variant, hashFile, nCommits, now, index, prev, latest,
                   diff, info, stamp, startFile, startIndex, cycles, last,
                   held>>

\* What the store can answer to a write of the record id: upload_documents
\* stores or fails; collection.add never replaces a stored id (it leaves
\* the stored record as it is) and stores or fails otherwise.
StoreOutcomes(v, idx, id) ==
    IF v = "azure" THEN {"ok", "fail"}
    ELSE IF id \in DOMAIN idx THEN {"ignored", "fail"}
    ELSE {"ok", "fail"}

\* The second half of the loop body: the record is built (the azure variant
\* takes its timestamp here) and handed to the store.
Upsert(p) ==
    /\ pc[p] = "upsert"
    /\ LET file == diff[p].files[cur[p]]
           t == IF variant = "azure" THEN now ELSE stamp[p]
           doc == MakeDocument(variant, file, info[p], vec[p], t)
       IN \E r \in Allowed(StoreOutcomes(variant, index, doc.id)) :
            /\ Charge(r)
            /\ IF r = "fail"
               THEN /\ UnitFailed(p, Event("upsert", FALSE, cur[p]))
                    /\ UNCHANGED index
               ELSE /\ index' = IF r = "ok" THEN Upload(index, doc)
                                ELSE index
                    /\ Log(p, Event("upsert", TRUE, cur[p]))
                    /\ GoToEntry(p, NextEntry(cur[p]), Len(diff[p].files))
    /\ UNCHANGED <<variant, hashFile, nCommits, now, prev, latest, diff,
                   info, vec, stamp, startFile, startIndex, cycles, last,
                   held>>

\* What a write of s that did not complete leaves in the file: nothing, or
\* a non-empty strict prefix of s (every such prefix is an id the remote
\* does not know; the longest one stands for all of them).
Partials(s) == {Take(s, k) : k \in {0, Len(s) - 1}}

\* write_previous_hash, open(self.hash_file, "w"): creates or truncates the
\* file, or raises and leaves it alone.
OpenHashFile(p) ==
    /\ pc[p] = "open"
    /\ \E r \in Allowed({"ok", "fail"}) :
        /\ Charge(r)
        /\ IF r = "ok"
           THEN /\ hashFile' = <<>>
                /\ Log(p, Event("open", TRUE, 0))
                /\ pc' = [pc EXCEPT ![p] = "write"]
                /\ UNCHANGED outcome
           ELSE /\ Log(p, Event("open", FALSE, 0))
                /\ EndCycle(p, "exception")
                /\ UNCHANGED hashFile
    /\ UNCHANGED <<variant, nCommits, now, index, prev, latest, diff, info,
                   cur, vec, stamp, branch, startFile, startIndex, cycles,
                   last, held>>

\* WriteContent storing the abbreviated hash the scripts print.
WriteContentShort(commit_hash) == Take(commit_hash, PrefixLen)

\* f.write(commit_hash): what a completed write stores.
WriteContent(commit_hash) == commit_hash

\* write_previous_hash, f.write(commit_hash) and the close: the whole hash
\* reaches the file, or the write raises with only a part of it stored.
WriteHashFile(p) ==
    /\ pc[p] = "write"
    /\ \E r \in Allowed({"ok", "fail"}) :
        /\ Charge(r)
        /\ IF r = "ok"
           THEN /\ hashFile' = WriteContent(latest[p])
                /\ Log(p, Event("write", TRUE, 0))
                /\ EndCycle(p, IF branch[p] = "bootstrap" THEN "bootstrap"
                               ELSE "committed")
           ELSE /\ hashFile' \in Partials(WriteContent(latest[p]))
                /\ Log(p, Event("write", FALSE, 0))
                /\ EndCycle(p, "exception")
    /\ UNCHANGED <<variant, nCommits, now, index, prev, latest, diff, info,
                   cur, vec, stamp, branch, startFile, startIndex, cycles,
                   last, held>>

\* The calls made with requests.get, which is given no timeout.
Blocking == {"resolve", "diff", "info"}

\* The remote accepts the connection and never answers: requests.get does
\* not return and the cycle stays where it is.
Hang(p) ==
    /\ pc[p] \in Blocking
    /\ faults < MaxFaults
    /\ faults' = faults + 1
    /\ pc' = [pc EXCEPT ![p] = "hung"]
    /\ UNCHANGED <<variant, hashFile, nCommits, now, index, prev, latest,
                   diff, info, cur, vec, stamp, branch, outcome, trace,
                   startFile, startIndex, cycles, last, held>>

\* The process is killed in the middle of a cycle.  A kill during the write
\* leaves whatever part of the hash had reached the file; the in-memory
\* chroma collection dies with the process.
Crash(p) ==
    /\ pc[p] \notin {"idle", "done"}
    /\ faults < MaxFaults
    /\ faults' = faults + 1
    /\ IF pc[p] = "write"
       THEN hashFile' \in Partials(WriteContent(latest[p]))
       ELSE UNCHANGED hashFile
    /\ index' = IF variant = "chroma" THEN EmptyIndex ELSE index
    /\ EndCycle(p, "crashed")
    /\ UNCHANGED <<variant, nCommits, now, prev, latest, diff, info, cur,
                   vec, stamp, branch, trace, startFile, startIndex, cycles,
                   last, held>>

\* The call returns (or the exception leaves it); the locals are gone.
Finish(p) ==
    /\ pc[p] = "done"
    /\ pc' = [pc EXCEPT ![p] = "idle"]
    /\ prev' = [prev EXCEPT ![p] = None]
    /\ latest' = [latest EXCEPT ![p] = None]
    /\ diff' = [diff EXCEPT ![p] = NoDiff]
    /\ info' = [info EXCEPT ![p] = NoInfo]
    /\ cur' = [cur EXCEPT ![p] = 0]
    /\ vec' = [vec EXCEPT ![p] = <<>>]
    /\ stamp' = [stamp EXCEPT ![p] = 0]
    /\ branch' = [branch EXCEPT ![p] = "none"]
    /\ outcome' = [outcome EXCEPT ![p] = "none"]
    /\ trace' = [trace EXCEPT ![p] = <<>>]
    /\ startFile' = [startFile EXCEPT ![p] = NoFile]
    /\ startIndex' = [startIndex EXCEPT ![p] = EmptyIndex]
    /\ last' = [outcome |-> outcome[p], base |-> prev[p],
                head |-> latest[p]]
    /\ UNCHANGED <<variant, hashFile, nCommits, now, index, cycles, faults,
                   held>>

AllIdle == \A p \in Procs : pc[p] = "idle"

\* The chroma script ends: client = chromadb.Client() is an in-memory
\* store, the next run of the script starts with an empty collection.
ProcessExit ==
    /\ variant = "chroma"
    /\ AllIdle
    /\ index # EmptyIndex
    /\ index' = EmptyIndex
    /\ UNCHANGED <<variant, hashFile, nCommits, now, pc, locals, outcome,
                   trace, startFile, startIndex, cycles, faults, last, held>>

\* A commit is pushed to the tracked branch.  After it has resolved the
\* head a cycle names revisions by id only, so a push during a cycle acts
\* like a push after it.
Push ==
    /\ nCommits < MaxCommits
    /\ AllIdle
    /\ nCommits' = nCommits + 1
    /\ UNCHANGED <<variant, hashFile, now, index, pc, locals, outcome,
                   trace, startFile, startIndex, cycles, faults, last, held>>

\* Time passes between two cycles.
Tick ==
    /\ now < MaxClock
    /\ AllIdle
    /\ now' = now + 1
    /\ UNCHANGED <<variant, hashFile, nCommits, index, pc, locals, outcome,
                   trace, startFile, startIndex, cycles, faults, last, held>>

Step(p) ==
    \/ Start(p)
    \/ ResolveHead(p)
    \/ FetchDiff(p)
    \/ FetchInfo(p)
    \/ Embed(p)
    \/ Upsert(p)
    \/ OpenHashFile(p)
    \/ WriteHashFile(p)
    \/ Hang(p)
    \/ Crash(p)
    \/ Finish(p)

\* One invocation at a time.
Next ==
    \/ Step(1)
    \/ ProcessExit
    \/ Push
    \/ Tick

Spec == Init /\ [][Next]_vars

\* The statements of a cycle: the interpreter goes on to the next one as
\* soon as the call it is in has returned or raised.
Progress(p) ==
    \/ ResolveHead(p)
    \/ FetchDiff(p)
    \/ FetchInfo(p)
    \/ Embed(p)
    \/ Upsert(p)
    \/ OpenHashFile(p)
    \/ WriteHashFile(p)
    \/ Finish(p)

\* A running invocation is never stopped for good by the scheduler.
FairSpec == Spec /\ WF_vars(Progress(1))

\* A commit is pushed while an invocation is in its cycle.
PushDuring ==
    /\ nCommits < MaxCommits
    /\ ~AllIdle
    /\ nCommits' = nCommits + 1
    /\ UNCHANGED <<variant, hashFile, now, index, pc, locals, outcome,
                   trace, startFile, startIndex, cycles, faults, last, held>>

\* The azure script started twice against the same pointer file and the
\* same search index (nothing in the script takes a lock).
InitConc == Init /\ variant = "azure"

NextConc ==
    \/ Step(1)
    \/ Step(2)
    \/ Push
    \/ PushDuring
    \/ Tick

SpecConc == InitConc /\ [][NextConc]_vars

\* ------------------------------------------------------------ properties
Range(t) == {t[i] : i \in DOMAIN t}

\* Positions of the calls of the cycle that failed.
Failed(p) == {i \in DOMAIN trace[p] : ~trace[p][i].ok}

\* Entry j of the delta was taken up by the loop.
Attempted(p, j) ==
    \E e \in Range(trace[p]) :
        e.f = j /\ e.op \in {"prepare", "embed", "upsert"}

\* Entries of the delta whose record the store accepted.
Upserted(p) ==
    {j \in 1..Len(diff[p].files) : Event("upsert", TRUE, j) \in Range(trace[p])}

UnitId(p, j) == MakeId(variant, latest[p], diff[p].files[j].filename)

\* C1: before the commit step of a cycle the pointer file is what it was
\* when the cycle started (so a cycle that stops before the commit step
\* leaves the old pointer), and the write of the new head in a delta cycle
\* starts only after every entry of the delta was attempted.
PointerHeldUntilCommit ==
    \A p \in Procs :
        /\ pc[p] \in {"resolve", "diff", "info", "embed", "upsert", "open"}
              => hashFile = startFile[p]
        /\ (pc[p] = "done" /\ Event("open", TRUE, 0) \notin Range(trace[p]))
              => hashFile = startFile[p]
        /\ (branch[p] = "delta" /\ pc[p] \in {"open", "write", "done"})
              => \A j \in 1..Len(diff[p].files) : Attempted(p, j)

\* A delta cycle stands before the pointer write with both entries of a
\* two-entry delta attempted and the old pointer still in the file.
PointerHeldWitness ==
    /\ pc[1] = "open"
    /\ branch[1] = "delta"
    /\ Len(diff[1].files) = 2
    /\ Attempted(1, 1) /\ Attempted(1, 2)
    /\ hashFile = startFile[1]
    /\ hashFile \in AllRevs

\* C2: when get_commit_info returns None and the diff was fetched, the
\* cycle ends without any upsert and with the pointer file as it was at
\* the start of the cycle.
MetadataAbsentAborts ==
    \A p \in Procs :
        (/\ pc[p] = "done"
         /\ outcome[p] # "crashed"
         /\ HasFileList(diff[p])
         /\ Event("info", FALSE, 0) \in Range(trace[p]))
        => /\ Upserted(p) = {}
           /\ outcome[p] # "committed"
           /\ hashFile = startFile[p]

\* C3: when open() or f.write() of write_previous_hash raises in a delta
\* cycle, reading the pointer after the cycle gives what the cycle read at
\* its start.
WriteFailureKeepsPointer ==
    \A p \in Procs :
        (/\ pc[p] = "done"
         /\ branch[p] = "delta"
         /\ \/ Event("open", FALSE, 0) \in Range(trace[p])
            \/ Event("write", FALSE, 0) \in Range(trace[p]))
        => ReadPreviousHash(hashFile) = prev[p]

\* C4: after a kill at any point of a cycle that started from a complete
\* pointer, read_previous_hash returns the complete old pointer or the
\* complete new one.
PointerWriteAtomic ==
    \A p \in Procs :
        (/\ pc[p] = "done"
         /\ outcome[p] = "crashed"
         /\ prev[p] \in AllRevs)
        => ReadPreviousHash(hashFile) \in {prev[p], latest[p]}

\* C5: when a cycle hands the store a unit that an earlier run over the
\* same delta already stored (same id, same revision), the stored record
\* afterwards is identical to the one stored before.
IdempotentUpsert ==
    \A p \in Procs :
        outcome[p] # "crashed" =>
            \A j \in Upserted(p) :
                (/\ UnitId(p, j) \in DOMAIN startIndex[p]
                 /\ startIndex[p][UnitId(p, j)].commit_sha = latest[p])
                => /\ UnitId(p, j) \in DOMAIN index
                   /\ index[UnitId(p, j)] = startIndex[p][UnitId(p, j)]

\* C6: the identifier computed for a unit never names a record stored for
\* another (revision id, filename) pair.
IdentifierUnique ==
    \A p \in Procs :
        pc[p] = "upsert" =>
            LET file == diff[p].files[cur[p]]
                id == UnitId(p, cur[p])
            IN id \in DOMAIN index =>
                  /\ index[id].commit_sha = latest[p]
                  /\ index[id].filename = file.filename

\* C7: a delta cycle of N entries in which no call failed made exactly the
\* calls head, diff, info, then embed and upsert of entry 1, ..., embed and
\* upsert of entry N, then the pointer write, and ends committed with the
\* pointer file holding the resolved head.
HealthyDeltaCommits ==
    \A p \in Procs :
        (/\ pc[p] = "done"
         /\ outcome[p] # "crashed"
         /\ HasFileList(diff[p])
         /\ Failed(p) = {})
        => LET n == Len(diff[p].files)
               t == trace[p]
           IN /\ Len(t) = 2 * n + 5
              /\ \A j \in 1..n :
                    /\ t[2 * j + 2] = Event("embed", TRUE, j)
                    /\ t[2 * j + 3] = Event("upsert", TRUE, j)
              /\ t[2 * n + 4] = Event("open", TRUE, 0)
              /\ t[2 * n + 5] = Event("write", TRUE, 0)
              /\ outcome[p] = "committed"
              /\ hashFile = latest[p]

\* A healthy cycle over a two-entry delta has committed.
HealthyDeltaWitness ==
    /\ pc[1] = "done"
    /\ outcome[1] = "committed"
    /\ Len(diff[1].files) = 2
    /\ Failed(1) = {}
    /\ Upserted(1) = {1, 2}
    /\ hashFile = latest[1]

\* C8: in the azure variant, when exactly one call of the cycle failed and
\* it was the embedding or the upsert of one entry, every other entry was
\* embedded and upserted and its record is in the store, and the cycle
\* ends committed with the pointer file holding the resolved head.
UnitFailureIsolated ==
    \A p \in Procs :
        (/\ variant = "azure"
         /\ pc[p] = "done"
         /\ outcome[p] # "crashed"
         /\ HasFileList(diff[p])
         /\ Cardinality(Failed(p)) = 1
         /\ \E i \in Failed(p) : trace[p][i].op \in {"embed", "upsert"})
        => LET n == Len(diff[p].files)
               bad == trace[p][CHOOSE i \in Failed(p) : TRUE].f
           IN /\ Upserted(p) = (1..n) \ {bad}
              /\ \A j \in (1..n) \ {bad} :
                    /\ Event("embed", TRUE, j) \in Range(trace[p])
                    /\ UnitId(p, j) \in DOMAIN index
                    /\ index[UnitId(p, j)].filename
                          = diff[p].files[j].filename
              /\ Cardinality(Upserted(p)) = n - 1
              /\ outcome[p] = "committed"
              /\ hashFile = latest[p]

\* The embedding of the first of two entries failed, the second entry was
\* stored and the cycle committed.
UnitFailureWitness ==
    /\ variant = "azure"
    /\ pc[1] = "done"
    /\ outcome[1] = "committed"
    /\ Len(diff[1].files) = 2
    /\ Event("embed", FALSE, 1) \in Range(trace[1])
    /\ Upserted(1) = {2}
    /\ hashFile = latest[1]

\* C9: a cycle that takes the bootstrap branch makes no diff, embed or
\* upsert call and writes the resolved head; and once a cycle has run from
\* a tracked pointer without being killed, the next cycle does not take
\* the bootstrap branch.
BootstrapOnlyOnce ==
    \A p \in Procs :
        /\ (pc[p] = "done" /\ outcome[p] = "bootstrap")
              => /\ trace[p] = <<Event("head", TRUE, 0),
                                 Event("open", TRUE, 0),
                                 Event("write", TRUE, 0)>>
                 /\ hashFile = latest[p]
                 /\ index = startIndex[p]
        /\ (/\ last.outcome \notin {"none", "crashed"}
            /\ ~Falsy(last.base)
            /\ pc[p] \notin {"idle", "resolve"})
              => branch[p] # "bootstrap"

\* C10: a cycle whose tracked pointer equals the resolved head ends right
\* after the head was resolved: the only call is the head resolution, and
\* the pointer file and the store are what they were at its start.
UpToDateIsNoOp ==
    \A p \in Procs :
        (/\ pc[p] \notin {"idle", "resolve"}
         /\ ~Falsy(latest[p])
         /\ prev[p] = latest[p])
        => /\ pc[p] = "done"
           /\ outcome[p] = "uptodate"
           /\ trace[p] = <<Event("head", TRUE, 0)>>
           /\ hashFile = startFile[p]
           /\ index = startIndex[p]

\* A cycle found the tracked pointer equal to the head while the store
\* already held records.
UpToDateWitness ==
    /\ pc[1] = "done"
    /\ outcome[1] = "uptodate"
    /\ prev[1] = latest[1]
    /\ prev[1] \in AllRevs
    /\ index # EmptyIndex

\* C11: a cycle whose head resolution returned None has made no other call
\* and ends with the pointer file and the store as they were at its start;
\* and after such a cycle on a fresh installation the next cycle that
\* resolves a head takes the bootstrap branch.
HeadAbsentAborts ==
    \A p \in Procs :
        /\ (/\ pc[p] \notin {"idle", "resolve"}
            /\ Event("head", FALSE, 0) \in Range(trace[p]))
              => /\ pc[p] = "done"
                 /\ outcome[p] \in {"nohead", "exception"}
                 /\ trace[p] = <<Event("head", FALSE, 0)>>
                 /\ hashFile = startFile[p]
                 /\ index = startIndex[p]
        /\ (/\ last.outcome = "nohead"
            /\ last.base = None
            /\ pc[p] \notin {"idle", "resolve", "hung"}
            /\ outcome[p] # "crashed"
            /\ ~Falsy(latest[p]))
              => branch[p] = "bootstrap"

\* After a cycle on a fresh installation that could not resolve the head
\* although the branch has commits, the next cycle takes the bootstrap
\* branch and stands before its pointer write with no pointer file yet.
HeadAbsentWitness ==
    /\ last.outcome = "nohead"
    /\ last.base = None
    /\ nCommits > 0
    /\ pc[1] = "open"
    /\ branch[1] = "bootstrap"
    /\ hashFile = NoFile

\* C12: a cycle whose diff fetch returned None, or a response without a
\* "files" key, makes no embed and no upsert call and starts no pointer
\* write: it ends with the pointer file and the store as they were at its
\* start.
DiffAbsentAborts ==
    \A p \in Procs :
        (/\ \E e \in Range(trace[p]) : e.op = "diff"
         /\ (~diff[p].ok \/ ~diff[p].hasFiles)
         /\ outcome[p] # "crashed")
        => /\ \A e \in Range(trace[p]) : e.op \in {"head", "diff", "info"}
           /\ pc[p] \in {"info", "hung", "done"}
           /\ pc[p] = "done" => outcome[p] \in {"nochanges", "exception"}
           /\ hashFile = startFile[p]
           /\ index = startIndex[p]

\* A cycle from a tracked pointer to a newer head got no file list from
\* the diff fetch, fetched the commit and returned with the old pointer.
DiffAbsentWitness ==
    /\ pc[1] = "done"
    /\ outcome[1] = "nochanges"
    /\ (~diff[1].ok \/ ~diff[1].hasFiles)
    /\ Event("info", TRUE, 0) \in Range(trace[1])
    /\ startFile[1] \in AllRevs
    /\ latest[1] # prev[1]
    /\ hashFile = startFile[1]

\* C13: cycles against the same pointer file do not overlap, so that two
\* invocations that read the same pointer never both write it with the
\* head resolved earlier ending up over the head resolved later: once both
\* have written, the file holds the newer of the two heads.
NoStaleHeadOverwrite ==
    \A p, q \in Procs :
        (/\ p # q
         /\ pc[p] = "done" /\ pc[q] = "done"
         /\ Event("write", TRUE, 0) \in Range(trace[p])
         /\ Event("write", TRUE, 0) \in Range(trace[q])
         /\ prev[p] = prev[q]
         /\ RevIndex(latest[p]) < RevIndex(latest[q]))
        => hashFile = latest[q]

\* C14: with cycles run one after another and a branch that only grows,
\* a revision id in the pointer file is never older than the last revision
\* id a cycle found there before.
MonotonicProgress ==
    (hashFile \in AllRevs /\ held \in AllRevs)
        => RevIndex(hashFile) >= RevIndex(held)

\* A delta cycle has moved the pointer two commits forward.
MonotonicWitness ==
    /\ pc[1] = "done"
    /\ outcome[1] = "committed"
    /\ held \in AllRevs
    /\ hashFile \in AllRevs
    /\ RevIndex(hashFile) = RevIndex(held) + 2

\* The cycle met one of the failures after which it is to leave the
\* pointer alone: head, diff or commit info absent, or the pointer write
\* failed.
Aborting(p) ==
    \E e \in Range(trace[p]) :
        ~e.ok /\ e.op \in {"head", "diff", "info", "open", "write"}

\* C15: a cycle from a tracked pointer that met such a failure leaves a
\* pointer file from which the next cycle reads the same base, and the
\* cycle after a cycle that ended without committing starts from the base
\* that cycle started from; the pointer write of a delta cycle starts only
\* after every entry of the delta was attempted.
RetryAfterAbort ==
    \A p \in Procs :
        /\ (/\ pc[p] = "done"
            /\ outcome[p] # "crashed"
            /\ prev[p] \in AllRevs
            /\ Aborting(p))
              => ReadPreviousHash(hashFile) = prev[p]
        /\ (/\ last.outcome \in {"nohead", "nochanges", "exception"}
            /\ last.base \in AllRevs
            /\ pc[p] # "idle")
              => prev[p] = last.base
        /\ (branch[p] = "delta" /\ pc[p] \in {"open", "write", "done"})
              => \A j \in 1..Len(diff[p].files) : Attempted(p, j)

\* C16: every cycle that has started eventually ends: the invocation
\* returns from process_commits / sync_with_vector_db (or leaves it by an
\* exception), whatever the remote does.
CycleTerminates ==
    \A p \in Procs : (pc[p] # "idle") ~> (pc[p] \in {"idle", "done"})

\* C17: every unit a cycle has stored is filed under the identifier
\* "<resolved head>_<filename>", the whole revision id of the head followed
\* by an underscore and the file name, and its revision field is the
\* resolved head, whatever the base pointer was.
UnitAttributedToHead ==
    \A p \in Procs :
        outcome[p] # "crashed" =>
            \A j \in Upserted(p) :
                LET name == diff[p].files[j].filename
                    id == latest[p] \o <<"_">> \o name
                IN /\ id \in DOMAIN index
                   /\ index[id].commit_sha = latest[p]
                   /\ index[id].filename = name

\* C18: the unit built from a changed entry and the commit metadata is
\* determined by those two: when the store holds a unit an earlier run
\* built from the same entry and the same commit, the unit built now has
\* the same identifier, text and metadata values as that one.
TransformDeterministic ==
    \A p \in Procs :
        pc[p] = "upsert" =>
            LET file == diff[p].files[cur[p]]
                t == IF variant = "azure" THEN now ELSE stamp[p]
                doc == MakeDocument(variant, file, info[p], vec[p], t)
            IN (/\ doc.id \in DOMAIN index
                /\ index[doc.id].commit_sha = info[p].sha
                /\ index[doc.id].filename = file.filename)
               => doc = index[doc.id]

\* C19: read_previous_hash returns None when there is no pointer file, and
\* after a write_previous_hash(h) that completed, read_previous_hash
\* returns h, whatever the file held before: the cycle that wrote leaves a
\* file that reads as its head, and the next cycle reads that head.
TrackerRoundTrip ==
    \A p \in Procs :
        /\ (pc[p] # "idle" /\ startFile[p] = NoFile) => prev[p] = None
        /\ (pc[p] = "done" /\ Event("write", TRUE, 0) \in Range(trace[p]))
              => ReadPreviousHash(hashFile) = latest[p]
        /\ (last.outcome \in {"bootstrap", "committed"} /\ pc[p] # "idle")
              => prev[p] = last.head

\* A cycle has read back the head that the cycle before it wrote over an
\* older revision id.
TrackerRoundTripWitness ==
    /\ last.outcome = "committed"
    /\ last.base \in AllRevs
    /\ last.head # last.base
    /\ pc[1] = "resolve"
    /\ prev[1] = last.head

\* C20: in the chroma variant, when the embedding or the storing of an
\* entry fails, the cycle ends by the exception: no entry after the failing
\* one is taken up, the pointer write is not started and the pointer file
\* is as it was, and the entries before the failing one were stored and
\* are in the store together with everything it held at the start.
UnitFailureAborts ==
    \A p \in Procs :
        (/\ variant = "chroma"
         /\ pc[p] = "done"
         /\ outcome[p] # "crashed"
         /\ \E i \in Failed(p) : trace[p][i].op \in {"embed", "upsert"})
        => LET n == Len(diff[p].files)
               bad == trace[p][CHOOSE i \in Failed(p) : TRUE].f
           IN /\ Cardinality(Failed(p)) = 1
              /\ outcome[p] = "exception"
              /\ \A j \in (bad + 1)..n : ~Attempted(p, j)
              /\ \A e \in Range(trace[p]) : e.op \notin {"open", "write"}
              /\ hashFile = startFile[p]
              /\ Upserted(p) = 1..(bad - 1)
              /\ \A j \in 1..(bad - 1) :
                    /\ UnitId(p, j) \in DOMAIN index
                    /\ index[UnitId(p, j)].filename
                          = diff[p].files[j].filename
              /\ \A id \in DOMAIN startIndex[p] :
                    id \in DOMAIN index /\ index[id] = startIndex[p][id]

\* The chroma variant stored the first of two entries, failed to store
\* the second, and ended by the exception with the old pointer in the file.
UnitFailureAbortsWitness ==
    /\ variant = "chroma"
    /\ pc[1] = "done"
    /\ outcome[1] = "exception"
    /\ Len(diff[1].files) = 2
    /\ Upserted(1) = {1}
    /\ Event("upsert", FALSE, 2) \in Range(trace[1])
    /\ UnitId(1, 1) \in DOMAIN index
    /\ startFile[1] \in AllRevs
    /\ hashFile = startFile[1]

\* C21: what read_previous_hash gets from the pointer file between cycles
\* is nothing (no file, or an empty one) or a revision id of the branch,
\* and every cycle leaves a file that reads as nothing, as what the cycle
\* read at its start, or as the head the cycle resolved; the file never
\* holds any other value.
PointerIsResolvedHead ==
    LET r == ReadPreviousHash(hashFile)
    IN /\ AllIdle =>
             \/ Falsy(r)
             \/ r \in {Rev(k) : k \in 1..nCommits}
       /\ \A p \in Procs :
             pc[p] = "done" =>
                 \/ Falsy(r)
                 \/ r = prev[p]
                 \/ r = latest[p]

\* C22: a delta cycle whose diff response has a "files" list with no
\* entries, and which was not left by an exception or a kill, makes no
\* embed and no upsert call, leaves the store as it was and ends committed
\* with the pointer file holding the resolved head; and the cycle that
\* follows such a cycle and resolves the same head ends up to date.
EmptyDeltaCommits ==
    \A p \in Procs :
        /\ (/\ pc[p] = "done"
            /\ outcome[p] \notin {"crashed", "exception"}
            /\ diff[p].ok /\ diff[p].hasFiles
            /\ diff[p].files = <<>>)
              => /\ \A e \in Range(trace[p]) :
                       e.op \notin {"prepare", "embed", "upsert"}
                 /\ Event("write", TRUE, 0) \in Range(trace[p])
                 /\ outcome[p] = "committed"
                 /\ ReadPreviousHash(hashFile) = latest[p]
                 /\ index = startIndex[p]
        /\ (/\ last.outcome = "committed"
            /\ last.base \in AllRevs
            /\ CompareFiles(RevIndex(last.base), RevIndex(last.head)) = <<>>
            /\ ~Falsy(latest[p])
            /\ latest[p] = last.head)
              => /\ pc[p] = "done"
                 /\ outcome[p] = "uptodate"
                 /\ hashFile = last.head

\* After a delta cycle over a diff without entries has committed, the next
\* cycle resolved the same head and ended up to date.
EmptyDeltaWitness ==
    /\ last.outcome = "committed"
    /\ last.base \in AllRevs
    /\ last.head # last.base
    /\ CompareFiles(RevIndex(last.base), RevIndex(last.head)) = <<>>
    /\ pc[1] = "done"
    /\ outcome[1] = "uptodate"
    /\ latest[1] = last.head
    /\ hashFile = last.head

====
